---- MODULE Spec2Model ----
(***************************************************************************)
(* Model of crates/engine-vimshottari/validate_agent35.py: a script that   *)
(* reads src/wisdom_data.rs, extracts the planet descriptions with a       *)
(* regular expression, checks the nine expected planets, counts the list   *)
(* items of the Sun section, inspects src/witness.rs and prints a verdict. *)
(*                                                                         *)
(* Text is modelled as a sequence of tokens.  A token stands for a fixed   *)
(* piece of text; a whitespace token is one whitespace character and a     *)
(* string-literal token carries its characters:                            *)
(*   VP(id)    VedicPlanet::<id>,          ws    one whitespace character  *)
(*   PPQ       PlanetaryPeriodQualities    {  }  braces                    *)
(*   desc      description:                str   "<text>"                  *)
(*   field(f)  <f>:                        vec   vec![                     *)
(*   ]         ]                           ts    .to_string()              *)
(*   ,         ,                           test  #[test]                   *)
(*   fn(f)     the function name <f>                                       *)
(***************************************************************************)
EXTENDS Integers, Sequences, FiniteSets, TLC

VARIABLES
    wisdom_data,          \* what open('src/wisdom_data.rs') found: a file status
    witness_rs,           \* what open('src/witness.rs') found: a file status
    pc,                   \* position of the script
    exc,                  \* the exception that ended the run, "" if none
    content,
    matches,
    planets_found,
    descriptions,
    all_valid,
    sun_section,
    themes_count,
    life_areas_count,
    challenges_count,
    opportunities_count,
    witness_content,
    test_count,
    has_beginner,
    has_intermediate,
    has_advanced,
    out                   \* the lines printed so far

vars == <<wisdom_data, witness_rs, pc, exc, content, matches, planets_found,
          descriptions, all_valid, sun_section, themes_count, life_areas_count,
          challenges_count, opportunities_count, witness_content, test_count,
          has_beginner, has_intermediate, has_advanced, out>>

---------------------------------------------------------------------------
(* Program constants *)

expected_planets ==
    <<"Sun", "Moon", "Mars", "Mercury", "Jupiter", "Venus", "Saturn", "Rahu", "Ketu">>

\* the word-count threshold of `word_count > 50`
Threshold == 50

\* the planet count of `len(planets_found) == 9`
ExpectedCount == 9

\* the four list fields, in the order of the four patterns
Fields == <<"themes", "life_areas", "challenges", "opportunities">>

PromptFunctions ==
    <<"generate_beginner_prompt", "generate_intermediate_prompt", "generate_advanced_prompt">>

---------------------------------------------------------------------------
(* Bounds of the inputs *)

\* word count of an ordinary description
GoodWords == 60
\* widest whitespace run between two words of a description
MaxSep == 2
\* widest whitespace run at either end of a description
MaxPad == 1
\* most items in a list field
MaxItems == 2
\* most #[test] markers in witness.rs
MaxTests == 3

\* identifiers a file may use that are not expected
OtherPlanets == {"Pluto"}

Range(s) == {s[i] : i \in DOMAIN s}

PlanetIds == Range(expected_planets) \cup OtherPlanets

---------------------------------------------------------------------------
(* Tokens and the input files *)

Tok(k, id, text) == [k |-> k, id |-> id, text |-> text]
T(k) == Tok(k, "", <<>>)
WS == T("ws")
VP(id) == Tok("VP", id, <<>>)
StrLit(text) == Tok("str", "", text)

RECURSIVE ConcatAll(_)
ConcatAll(ss) == IF ss = <<>> THEN <<>> ELSE Head(ss) \o ConcatAll(Tail(ss))

\* The characters of a description of n words: pad whitespace characters,
\* the words (one character each) sep whitespace characters apart, pad again.
DescText(n, sep, pad) ==
    LET body == n + (n - 1) * sep
        len == body + 2 * pad
    IN [i \in 1..len |->
            IF i > pad /\ i <= pad + body /\ (i - pad - 1) % (sep + 1) = 0
            THEN "w" ELSE " "]

\* A description shape; n = 0 stands for a record without a description field.
PlainDesc(n) == [n |-> n, sep |-> 1, pad |-> 0]
NoDesc == PlainDesc(0)
WordCounts == {Threshold, Threshold + 1, GoodWords}
PlainDescs == {PlainDesc(n) : n \in WordCounts} \cup {NoDesc}
SpacedDescs == [n : WordCounts, sep : 1..MaxSep, pad : 0..MaxPad] \cup {NoDesc}

\* A list field: absent, or present with the characters of each item.
AbsentList == [present |-> FALSE, items |-> <<>>]
PlainList(k) == [present |-> TRUE, items |-> [i \in 1..k |-> <<"w">>]]
\* k items of which item b holds a closing bracket
BracketList(k, b) ==
    [present |-> TRUE,
     items |-> [i \in 1..k |-> IF i = b THEN <<"w", "]", "w">> ELSE <<"w">>]]
ListVariants ==
    {AbsentList} \cup {PlainList(k) : k \in 0..MaxItems}
                 \cup {BracketList(k, b) : k \in 1..MaxItems, b \in 1..MaxItems}
DefaultLists == [f \in Range(Fields) |-> PlainList(1)]

\* <f>: vec!["..".to_string(), .. ],
ListTokens(f, l) ==
    IF ~l.present THEN <<>>
    ELSE <<Tok("field", f, <<>>), WS, T("vec")>>
         \o [j \in 1..(4 * Len(l.items)) |->
                CASE (j - 1) % 4 = 0 -> StrLit(l.items[((j - 1) \div 4) + 1])
                  [] (j - 1) % 4 = 1 -> T("ts")
                  [] (j - 1) % 4 = 2 -> T(",")
                  [] OTHER -> WS]
         \o <<T("]"), T(","), WS>>

\* VedicPlanet::<id>, PlanetaryPeriodQualities { <lists> description: "..", },
RecordTokens(r) ==
    <<VP(r.id), WS, T("PPQ"), WS, T("{"), WS>>
    \o ConcatAll([i \in 1..Len(Fields) |-> ListTokens(Fields[i], r.lists[Fields[i]])])
    \o (IF r.desc.n = 0 THEN <<>>
        ELSE <<T("desc"), WS, StrLit(DescText(r.desc.n, r.desc.sep, r.desc.pad)), T(","), WS>>)
    \o <<T("}"), T(","), WS>>

FileText(recs) == ConcatAll([i \in 1..Len(recs) |-> RecordTokens(recs[i])])

Rec(id, desc, lists) == [id |-> id, desc |-> desc, lists |-> lists]

\* the file with one ordinary record for each expected planet, in order
BaseRecords ==
    [i \in 1..Len(expected_planets) |->
        Rec(expected_planets[i], PlainDesc(GoodWords), DefaultLists)]

InsertAt(s, i, e) == SubSeq(s, 1, i) \o <<e>> \o SubSeq(s, i + 1, Len(s))
RemoveAt(s, i) == SubSeq(s, 1, i - 1) \o SubSeq(s, i + 1, Len(s))
ReplaceAt(s, i, e) == [s EXCEPT ![i] = e]

\* The files the model reads: the base file; the files one edit away from it
\* (a record removed; a record inserted or replaced at the front, after the
\* first record or at the end; a description respaced; a list field of the Sun
\* record changed); the base file cut after any record; one-record files.
InsertedRecords == {Rec(id, d, DefaultLists) : id \in PlanetIds, d \in PlainDescs}
RespacedRecords(i) == {Rec(expected_planets[i], d, DefaultLists) : d \in SpacedDescs}
RelistedRecords ==
    {Rec(expected_planets[1], PlainDesc(GoodWords), [DefaultLists EXCEPT ![f] = l]) :
        f \in Range(Fields), l \in ListVariants}
EditPositions == {1, 2, Len(BaseRecords)}

RecordLists ==
    {SubSeq(BaseRecords, 1, n) : n \in 0..Len(BaseRecords)}
    \cup {<<r>> : r \in InsertedRecords}
    \cup {RemoveAt(BaseRecords, i) : i \in 1..Len(BaseRecords)}
    \cup {InsertAt(BaseRecords, i, r) : i \in {0, 1, Len(BaseRecords)}, r \in InsertedRecords}
    \cup UNION {{ReplaceAt(BaseRecords, i, r) : r \in InsertedRecords \cup RespacedRecords(i)} :
                i \in EditPositions}
    \cup {ReplaceAt(BaseRecords, 1, r) : r \in RelistedRecords}

\* witness.rs with n test markers and the functions fs
WitnessText(n, fs) ==
    [i \in 1..n |-> T("test")]
    \o [i \in 1..Len(SelectSeq(PromptFunctions, LAMBDA f : f \in fs)) |->
            Tok("fn", SelectSeq(PromptFunctions, LAMBDA f : f \in fs)[i], <<>>)]
    \o <<WS>>

\* what an open and read can find: the file's text, no file, or a file that
\* cannot be read
File(status, data) == [status |-> status, data |-> data]
Missing == File("missing", <<>>)
Unreadable == File("unreadable", <<>>)

PrimaryFiles ==
    {Missing, Unreadable} \cup {File("ok", FileText(recs)) : recs \in RecordLists}

WitnessFiles ==
    {Missing, Unreadable}
    \cup {File("ok", WitnessText(n, fs)) : n \in 0..MaxTests, fs \in SUBSET Range(PromptFunctions)}

---------------------------------------------------------------------------
(* Python and regular-expression helpers *)

\* Body applied to the value of v, which is evaluated once
With(v, Body(_)) == CHOOSE r \in {Body(x) : x \in {v}} : TRUE

\* the least i in lo..hi with P(i), 0 if there is none
First(lo, hi, P(_)) ==
    IF \E i \in lo..hi : P(i)
    THEN CHOOSE i \in lo..hi : P(i) /\ \A j \in lo..(i - 1) : ~P(j)
    ELSE 0

\* str.find: the 0-based index of the first occurrence of tok, -1 if none
Find(s, tok) == First(1, Len(s), LAMBDA i : s[i] = tok) - 1

\* a slice bound as Python adjusts it: negative counts from the end, then clamped
SliceBound(n, i) ==
    IF i < 0 THEN (IF i + n < 0 THEN 0 ELSE i + n) ELSE (IF i > n THEN n ELSE i)

\* s[i:j] with 0-based bounds
Slice(s, i, j) ==
    With(<<SliceBound(Len(s), i), SliceBound(Len(s), j)>>,
         LAMBDA b : IF b[1] < b[2] THEN SubSeq(s, b[1] + 1, b[2]) ELSE <<>>)

\* \s* from position i: the position after the longest whitespace run
WsEnd(s, i) ==
    CHOOSE j \in i..(Len(s) + 1) :
        /\ \A k \in i..(j - 1) : s[k].k = "ws"
        /\ j = Len(s) + 1 \/ s[j].k # "ws"

\* \s+ from position i, then a token of kind k: the position of that token,
\* 0 if the text does not continue so
AfterWs(s, i, k) ==
    With(WsEnd(s, i),
         LAMBDA j : IF j > i /\ j <= Len(s) /\ s[j].k = k THEN j ELSE 0)

NoMatch == [ok |-> FALSE, end |-> 0, planet |-> "", desc |-> <<>>]

\* planet_pattern matched from position i:
\*   VedicPlanet::(\w+),\s+PlanetaryPeriodQualities\s+{.*?description:\s+"([^"]+)"
\* with DOTALL; .*? stops at the first description: that a non-empty string follows.
MatchPlanetAt(s, i) ==
    IF s[i].k # "VP" THEN NoMatch
    ELSE With(AfterWs(s, i + 1, "PPQ"), LAMBDA a :
         IF a = 0 THEN NoMatch
         ELSE With(AfterWs(s, a + 1, "{"), LAMBDA b :
         IF b = 0 THEN NoMatch
         ELSE With(First(b + 1, Len(s), LAMBDA t :
                         /\ s[t].k = "desc"
                         /\ AfterWs(s, t + 1, "str") # 0
                         /\ s[AfterWs(s, t + 1, "str")].text # <<>>), LAMBDA d :
         IF d = 0 THEN NoMatch
         ELSE With(AfterWs(s, d + 1, "str"), LAMBDA c :
              [ok |-> TRUE, end |-> c + 1, planet |-> s[i].id, desc |-> s[c].text]))))

\* re.findall(planet_pattern, s, re.DOTALL) from position from: the (planet, desc)
\* pairs of the non-overlapping matches, left to right
RECURSIVE FindAllPlanets(_, _)
FindAllPlanets(s, from) ==
    With(First(from, Len(s), LAMBDA i : MatchPlanetAt(s, i).ok), LAMBDA start :
    IF start = 0 THEN <<>>
    ELSE With(MatchPlanetAt(s, start), LAMBDA m :
         <<<<m.planet, m.desc>>>> \o FindAllPlanets(s, m.end)))

IsSpace(c) == c = " "

\* a word begins at position i
WordStart(d, i) == ~IsSpace(d[i]) /\ (i = 1 \/ IsSpace(d[i - 1]))

\* the position after the word that begins at position i
WordEnd(d, i) ==
    With(First(i, Len(d), LAMBDA e : IsSpace(d[e])),
         LAMBDA e : IF e = 0 THEN Len(d) + 1 ELSE e)

\* the maximal runs of non-whitespace characters that begin in lo..hi, in order
RECURSIVE WordsIn(_, _, _)
WordsIn(d, lo, hi) ==
    IF lo > hi THEN <<>>
    ELSE IF lo = hi
    THEN (IF WordStart(d, lo) THEN <<SubSeq(d, lo, WordEnd(d, lo) - 1)>> ELSE <<>>)
    ELSE With((lo + hi) \div 2,
              LAMBDA mid : WordsIn(d, lo, mid) \o WordsIn(d, mid + 1, hi))

\* str.split(): runs of whitespace separate the words; no empty words
split(d) == WordsIn(d, 1, Len(d))

\* the dict entry with the comparison written >= in place of >
PlanetRecordGe(desc) ==
    With(Len(split(desc)), LAMBDA word_count :
         [description |-> desc, word_count |-> word_count,
          valid |-> word_count >= Threshold])

\* the dict entry of one match
PlanetRecord(desc) ==
    With(Len(split(desc)), LAMBDA word_count :
         [description |-> desc, word_count |-> word_count,
          valid |-> word_count > Threshold])

\* d[k] = v
DictSet(d, k, v) == (k :> v) @@ d

\* for planet, desc in matches: from match i on, with the list and dict so far
RECURSIVE ExtractLoop(_, _, _, _)
ExtractLoop(ms, i, found, descs) ==
    IF i > Len(ms) THEN [planets_found |-> found, descriptions |-> descs]
    ELSE With(PlanetRecord(ms[i][2]), LAMBDA rec :
         With(<<i + 1, Append(found, ms[i][1]), DictSet(descs, ms[i][1], rec)>>,
              LAMBDA n : ExtractLoop(ms, n[1], n[2], n[3])))

\* the four list patterns <field>:\s+vec!\[(.*?)\], named by their field
theme_pattern == "themes"
life_areas_pattern == "life_areas"
challenges_pattern == "challenges"
opportunities_pattern == "opportunities"

HasBracket(tok) == tok.k = "]" \/ (tok.k = "str" /\ "]" \in Range(tok.text))

NoList == [ok |-> FALSE, end |-> 0, group |-> <<>>]

\* a list pattern matched from position i; the group (.*?) runs to the first
\* closing bracket, also one inside a string literal, whose text is then cut there
MatchListAt(pattern, s, i) ==
    IF s[i].k # "field" \/ s[i].id # pattern THEN NoList
    ELSE With(AfterWs(s, i + 1, "vec"), LAMBDA a :
         IF a = 0 THEN NoList
         ELSE With(First(a + 1, Len(s), LAMBDA t : HasBracket(s[t])), LAMBDA t :
         IF t = 0 THEN NoList
         ELSE [ok |-> TRUE, end |-> t + 1,
               group |-> SubSeq(s, a + 1, t - 1)
                         \o (IF s[t].k = "str"
                             THEN <<Tok("open", "",
                                        SubSeq(s[t].text, 1,
                                               First(1, Len(s[t].text),
                                                     LAMBDA c : s[t].text[c] = "]") - 1))>>
                             ELSE <<>>)]))

\* re.findall(pattern, s, re.DOTALL): the groups of the matches
RECURSIVE FindAllLists(_, _, _)
FindAllLists(pattern, s, from) ==
    With(First(from, Len(s), LAMBDA i : MatchListAt(pattern, s, i).ok), LAMBDA start :
    IF start = 0 THEN <<>>
    ELSE With(MatchListAt(pattern, s, start), LAMBDA m :
         <<m.group>> \o FindAllLists(pattern, s, m.end)))

\* len(re.findall(r'\.to_string\(\)', g))
CountToString(g) == Cardinality({u \in 1..Len(g) : g[u].k = "ts"})

count_items(pattern, section) ==
    With(FindAllLists(pattern, section, 1),
         LAMBDA ms : IF ms # <<>> THEN CountToString(ms[1]) ELSE 0)

\* content[content.find('VedicPlanet::Sun,'):content.find('VedicPlanet::Moon,')]
SunSection(text) == Slice(text, Find(text, VP("Sun")), Find(text, VP("Moon")))

\* len(re.findall(r'#\[test\]', text))
CountTests(text) == Cardinality({u \in 1..Len(text) : text[u].k = "test"})

\* name in text
Contains(text, name) == \E u \in 1..Len(text) : text[u].k = "fn" /\ text[u].id = name

---------------------------------------------------------------------------
(* The printed lines *)

Line(kind, planet, n, ok) == [line |-> kind, planet |-> planet, n |-> n, ok |-> ok]
Sep == Line("sep", "", 0, TRUE)
Blank == Line("blank", "", 0, TRUE)
PlanetLine(p, d) == Line("planet", p, d.word_count, d.valid)
MissingLine(p) == Line("missing", p, 0, FALSE)
Passed == Line("verdict", "", 0, TRUE)
Failed == Line("verdict", "", 0, FALSE)

---------------------------------------------------------------------------
Init ==
    /\ wisdom_data = "unopened"
    /\ witness_rs = "unopened"
    /\ pc = "read"
    /\ exc = ""
    /\ content = <<>>
    /\ matches = <<>>
    /\ planets_found = <<>>
    /\ descriptions = <<>>
    /\ all_valid = FALSE
    /\ sun_section = <<>>
    /\ themes_count = 0
    /\ life_areas_count = 0
    /\ challenges_count = 0
    /\ opportunities_count = 0
    /\ witness_content = <<>>
    /\ test_count = 0
    /\ has_beginner = FALSE
    /\ has_intermediate = FALSE
    /\ has_advanced = FALSE
    /\ out = <<>>

\* the exception open() or read() raises on a file that is not "ok"
OpenError(status) ==
    IF status = "missing" THEN "FileNotFoundError" ELSE "PermissionError"

\* the read of src/wisdom_data.rs with its error caught: the run goes on with
\* an empty content
ReadPrimaryCaught ==
    /\ pc = "read"
    /\ \E f \in PrimaryFiles :
        /\ wisdom_data' = f.status
        /\ content' = IF f.status = "ok" THEN f.data ELSE <<>>
    /\ pc' = "extract"
    /\ UNCHANGED <<witness_rs, exc, matches, planets_found, descriptions,
                   all_valid, sun_section, themes_count, life_areas_count,
                   challenges_count, opportunities_count, witness_content,
                   test_count, has_beginner, has_intermediate, has_advanced, out>>

\* lines 12-13: open and read src/wisdom_data.rs; an error is not caught
ReadPrimary ==
    /\ pc = "read"
    /\ \E f \in PrimaryFiles :
        /\ wisdom_data' = f.status
        /\ IF f.status = "ok"
           THEN /\ content' = f.data
                /\ pc' = "extract"
                /\ exc' = exc
           ELSE /\ content' = content
                /\ pc' = "error"
                /\ exc' = OpenError(f.status)
    /\ UNCHANGED <<witness_rs, matches, planets_found, descriptions,
                   all_valid, sun_section, themes_count, life_areas_count,
                   challenges_count, opportunities_count, witness_content,
                   test_count, has_beginner, has_intermediate, has_advanced, out>>

\* lines 16-34: the matches, the banner, and the loop over the matches
ExtractRecords ==
    /\ pc = "extract"
    /\ \E ms \in {FindAllPlanets(content, 1)} :
       \E r \in {ExtractLoop(ms, 1, <<>>, <<>>)} :
          /\ matches' = ms
          /\ planets_found' = r.planets_found
          /\ descriptions' = r.descriptions
    /\ out' = out \o <<Sep, Line("title", "", 0, TRUE), Sep, Blank>>
    /\ pc' = "check"
    /\ UNCHANGED <<wisdom_data, witness_rs, exc, content, all_valid, sun_section,
                   themes_count, life_areas_count, challenges_count,
                   opportunities_count, witness_content, test_count,
                   has_beginner, has_intermediate, has_advanced>>

\* the MISSING branch without its assignment to all_valid
AfterMissingKept(av) == av

\* line 53: all_valid after an expected planet was not found
AfterMissing(av) == FALSE

\* the found branch with its test of data['valid'] inverted
AfterFoundInverted(av, data) == IF data.valid THEN FALSE ELSE av

\* lines 49-50: all_valid after the line of a planet that was found
AfterFound(av, data) == IF ~data.valid THEN FALSE ELSE av

\* lines 44-53: for planet in expected_planets, from planet i on, with all_valid
\* and the printed lines so far
RECURSIVE CheckLoop(_, _, _, _)
CheckLoop(descs, i, av, lines) ==
    IF i > Len(expected_planets) THEN [all_valid |-> av, out |-> lines]
    ELSE With(expected_planets[i], LAMBDA planet :
         With(IF planet \in DOMAIN descs
              THEN <<AfterFound(av, descs[planet]),
                     Append(lines, PlanetLine(planet, descs[planet]))>>
              ELSE <<AfterMissing(av), Append(lines, MissingLine(planet))>>,
              LAMBDA n : CheckLoop(descs, i + 1, n[1], n[2])))

\* lines 37-56: the count of planets found and the check of each expected planet
CheckCompleteness ==
    /\ pc = "check"
    /\ \E r \in {CheckLoop(descriptions, 1, TRUE,
                           out \o <<Line("found", "", Len(planets_found), TRUE), Blank>>)} :
        /\ all_valid' = r.all_valid
        /\ out' = r.out \o <<Blank, Sep>>
    /\ pc' = "data"
    /\ UNCHANGED <<wisdom_data, witness_rs, exc, content, matches, planets_found,
                   descriptions, sun_section, themes_count, life_areas_count,
                   challenges_count, opportunities_count, witness_content,
                   test_count, has_beginner, has_intermediate, has_advanced>>

\* lines 59-87: the Sun section and the item counts of its four list fields
DataCompleteness ==
    /\ pc = "data"
    /\ \E sec \in {SunSection(content)} :
       \E n \in {<<count_items(theme_pattern, sec), count_items(life_areas_pattern, sec),
                   count_items(challenges_pattern, sec),
                   count_items(opportunities_pattern, sec)>>} :
        /\ sun_section' = sec
        /\ themes_count' = n[1]
        /\ life_areas_count' = n[2]
        /\ challenges_count' = n[3]
        /\ opportunities_count' = n[4]
        /\ out' = out \o <<Line("data_title", "", 0, TRUE), Sep,
                           Line("sun_title", "", 0, TRUE),
                           Line("themes", "", n[1], TRUE),
                           Line("life_areas", "", n[2], TRUE),
                           Line("challenges", "", n[3], TRUE),
                           Line("opportunities", "", n[4], TRUE),
                           Blank>>
    /\ pc' = "witness"
    /\ UNCHANGED <<wisdom_data, witness_rs, exc, content, matches, planets_found,
                   descriptions, all_valid, witness_content, test_count,
                   has_beginner, has_intermediate, has_advanced>>

\* a try without the except clause
CaughtNothing(error) == FALSE

\* line 107: except FileNotFoundError
Caught(error) == error = "FileNotFoundError"

\* the except branch without its assignment to all_valid
AfterNotFoundKept(av) == av

\* line 109: all_valid after witness.rs was not found
AfterNotFound(av) == FALSE

\* a try body that fails the run on a witness.rs without tests or functions
AfterInspectedStrict(av, tests, beginner, intermediate, advanced) ==
    av /\ tests > 0 /\ beginner /\ intermediate /\ advanced

\* lines 91-105: the try body assigns nothing to all_valid
AfterInspected(av, tests, beginner, intermediate, advanced) == av

\* lines 90-109: open and read src/witness.rs, count its tests, look for the
\* three prompt functions; only FileNotFoundError is caught
InspectWitness ==
    /\ pc = "witness"
    /\ \E f \in WitnessFiles :
        /\ witness_rs' = f.status
        /\ IF f.status = "ok"
           THEN \E n \in {CountTests(f.data)} :
                \E b \in {<<Contains(f.data, PromptFunctions[1]),
                            Contains(f.data, PromptFunctions[2]),
                            Contains(f.data, PromptFunctions[3])>>} :
                /\ witness_content' = f.data
                /\ test_count' = n
                /\ has_beginner' = b[1]
                /\ has_intermediate' = b[2]
                /\ has_advanced' = b[3]
                /\ out' = out \o <<Line("witness_exists", "", 0, TRUE),
                                   Line("tests", "", n, TRUE),
                                   Line("beginner", "", 0, b[1]),
                                   Line("intermediate", "", 0, b[2]),
                                   Line("advanced", "", 0, b[3])>>
                /\ all_valid' = AfterInspected(all_valid, n, b[1], b[2], b[3])
                /\ pc' = "verdict"
                /\ exc' = exc
           ELSE IF Caught(OpenError(f.status))
           THEN /\ out' = out \o <<Line("witness_not_found", "", 0, FALSE)>>
                /\ all_valid' = AfterNotFound(all_valid)
                /\ pc' = "verdict"
                /\ UNCHANGED <<exc, witness_content, test_count, has_beginner,
                               has_intermediate, has_advanced>>
           ELSE /\ pc' = "error"
                /\ exc' = OpenError(f.status)
                /\ UNCHANGED <<out, all_valid, witness_content, test_count,
                               has_beginner, has_intermediate, has_advanced>>
    /\ UNCHANGED <<wisdom_data, content, matches, planets_found, descriptions,
                   sun_section, themes_count, life_areas_count, challenges_count,
                   opportunities_count>>

\* the verdict without the test of len(planets_found)
VerdictLineNoCount(av, found) == IF av THEN Passed ELSE Failed

\* lines 114-117: the verdict line
VerdictLine(av, found) ==
    IF av /\ Len(found) = ExpectedCount THEN Passed ELSE Failed

\* lines 111-119: the verdict between two separators
Verdict ==
    /\ pc = "verdict"
    /\ out' = out \o <<Blank, Sep, VerdictLine(all_valid, planets_found), Sep>>
    /\ pc' = "done"
    /\ UNCHANGED <<wisdom_data, witness_rs, exc, content, matches, planets_found,
                   descriptions, all_valid, sun_section, themes_count,
                   life_areas_count, challenges_count, opportunities_count,
                   witness_content, test_count, has_beginner, has_intermediate,
                   has_advanced>>

Next ==
    \/ ReadPrimary
    \/ ExtractRecords
    \/ CheckCompleteness
    \/ DataCompleteness
    \/ InspectWitness
    \/ Verdict

Spec == Init /\ [][Next]_vars

\* the script runs each statement after the one before
FairSpec == Spec /\ WF_vars(Next)
---------------------------------------------------------------------------
(* Vocabulary of the claims *)

Done == pc = "done"
Printed(l) == \E i \in 1..Len(out) : out[i] = l
PrintedKind(kind) == \E i \in 1..Len(out) : out[i].line = kind
Expected == Range(expected_planets)

\* the matches that carry identifier p
MatchesOf(p) == {i \in 1..Len(matches) : matches[i][1] = p}
Extracted(p) == MatchesOf(p) # {}

\* the number of whitespace-separated words of d: its non-whitespace characters
\* that end the text or stand before a whitespace character
WordCountOf(d) ==
    Cardinality({i \in 1..Len(d) : d[i] # " " /\ (i = Len(d) \/ d[i + 1] = " ")})

\* the completeness check has run
Checked == pc \in {"data", "witness", "verdict", "done"} \/ (pc = "error" /\ wisdom_data = "ok")

\* every expected planet has a retained record, and it is valid
AllNineValid == \A p \in Expected : p \in DOMAIN descriptions /\ descriptions[p].valid

---------------------------------------------------------------------------
\* C1: an expected identifier that no extracted record carries gets a MISSING
\* line, and the verdict is VALIDATION FAILED (never PASSED), whatever else
\* was extracted and whatever the state of witness.rs.
C1_MissingFails ==
    \A p \in Expected :
        (Checked /\ ~Extracted(p)) =>
            /\ Printed(MissingLine(p))
            /\ ~Printed(Passed)
            /\ Done => Printed(Failed)

\* a finished run with nine records found, one expected planet among them missing
C1_Witness ==
    /\ Done /\ witness_rs = "ok"
    /\ Len(planets_found) = ExpectedCount
    /\ \E p \in Expected : ~Extracted(p) /\ Printed(MissingLine(p))
    /\ Printed(Failed)

\* C2 as stated: every extracted description of exactly 50 words gets a FAIL
\* line for its identifier and forces VALIDATION FAILED, and every one of 51
\* words gets a PASS line; valid iff word_count > 50.
C2_Original ==
    /\ \A p \in DOMAIN descriptions :
        /\ descriptions[p].word_count = WordCountOf(descriptions[p].description)
        /\ descriptions[p].valid <=> descriptions[p].word_count > Threshold
    /\ Done =>
        \A i \in 1..Len(matches) :
            /\ WordCountOf(matches[i][2]) = Threshold =>
                /\ Printed(Line("planet", matches[i][1], Threshold, FALSE))
                /\ Printed(Failed)
            /\ WordCountOf(matches[i][2]) = Threshold + 1 =>
                Printed(Line("planet", matches[i][1], Threshold + 1, TRUE))

\* C2 amended: the record retained for an identifier is that of its last match;
\* its word_count is the number of whitespace-separated words and valid iff
\* word_count > 50.  A retained record of an expected identifier gets a FAIL line
\* at exactly 50 words and a PASS line at 51; any extracted description of
\* exactly 50 words forces VALIDATION FAILED.
C2_Amended ==
    /\ DOMAIN descriptions = {matches[i][1] : i \in 1..Len(matches)}
    /\ \A p \in DOMAIN descriptions :
        /\ \E i \in MatchesOf(p) :
            /\ \A j \in MatchesOf(p) : j <= i
            /\ descriptions[p].description = matches[i][2]
        /\ descriptions[p].word_count = WordCountOf(descriptions[p].description)
        /\ descriptions[p].valid <=> descriptions[p].word_count > Threshold
    /\ Done =>
        /\ \A p \in Expected \cap DOMAIN descriptions :
            /\ descriptions[p].word_count = Threshold =>
                Printed(Line("planet", p, Threshold, FALSE))
            /\ descriptions[p].word_count = Threshold + 1 =>
                Printed(Line("planet", p, Threshold + 1, TRUE))
        /\ \A i \in 1..Len(matches) :
            WordCountOf(matches[i][2]) = Threshold => Printed(Failed)

\* a finished run in which an expected planet's 50 words, spread by extra
\* whitespace, got the FAIL line
C2_Witness ==
    /\ Done
    /\ \E p \in Expected \cap DOMAIN descriptions :
        /\ descriptions[p].word_count = Threshold
        /\ Len(descriptions[p].description) > 2 * Threshold - 1
        /\ Printed(Line("planet", p, Threshold, FALSE))
    /\ Printed(Failed)

\* C3: when witness.rs does not exist nothing is raised, NOT FOUND is printed
\* and none of the witness success lines, the run goes on to the verdict, and
\* the verdict is VALIDATION FAILED.
C3_WitnessAbsent ==
    witness_rs = "missing" =>
        /\ pc \in {"verdict", "done"} /\ exc = ""
        /\ Printed(Line("witness_not_found", "", 0, FALSE))
        /\ \A kind \in {"witness_exists", "tests", "beginner", "intermediate", "advanced"} :
            ~PrintedKind(kind)
        /\ ~Printed(Passed)
        /\ pc = "verdict" => ENABLED Verdict
        /\ Done => Printed(Failed)

\* a finished run without witness.rs in which all nine were found and valid
C3_Witness ==
    /\ Done /\ witness_rs = "missing"
    /\ Len(planets_found) = ExpectedCount /\ AllNineValid
    /\ Printed(Failed)

\* C4: exactly one record for each expected planet, each of more than 50 words,
\* and a witness.rs with 3 test markers and the three functions: the report
\* prints 9/9, a PASS line for each of the nine, and ALL VALIDATION CHECKS PASSED.
C4_Scenario ==
    /\ Len(matches) = ExpectedCount
    /\ \A p \in Expected :
        \E i \in MatchesOf(p) :
            MatchesOf(p) = {i} /\ WordCountOf(matches[i][2]) > Threshold
    /\ witness_rs = "ok"
    /\ Cardinality({i \in 1..Len(witness_content) : witness_content[i].k = "test"}) = 3
    /\ \A f \in Range(PromptFunctions) :
        \E i \in 1..Len(witness_content) : witness_content[i] = Tok("fn", f, <<>>)

C4_AllPass ==
    (Done /\ C4_Scenario) =>
        /\ Printed(Line("found", "", ExpectedCount, TRUE))
        /\ \A p \in Expected :
            \E i \in MatchesOf(p) :
                Printed(Line("planet", p, WordCountOf(matches[i][2]), TRUE))
        /\ ~PrintedKind("missing")
        /\ Printed(Passed) /\ ~Printed(Failed)

\* a finished run of the scenario
C4_Witness == Done /\ C4_Scenario /\ Printed(Passed)

\* C5: a run that prints ALL VALIDATION CHECKS PASSED extracted each of the
\* nine expected identifiers exactly once and no other identifier.
C5_ExactlyOnce ==
    (Done /\ Printed(Passed)) =>
        /\ \A p \in Expected : Cardinality(MatchesOf(p)) = 1
        /\ \A i \in 1..Len(matches) : matches[i][1] \in Expected

\* a finished run that passed
C5_Witness ==
    /\ Done /\ Printed(Passed)
    /\ \A p \in Expected : Cardinality(MatchesOf(p)) = 1

\* the 1-based position of the first list field f of text s, 0 if none
ListStart(s, f) ==
    First(1, Len(s), LAMBDA i :
            s[i] = Tok("field", f, <<>>) /\ AfterWs(s, i + 1, "vec") # 0)

\* the bracket that closes the list opened at vec![ position a: the first
\* closing bracket outside the string literals
ListClose(s, a) == First(a + 1, Len(s), LAMBDA t : s[t].k = "]")

\* text s holds list field f: its first occurrence is closed, and between the
\* brackets stand only quoted-and-converted strings, commas and whitespace
HoldsList(s, f) ==
    /\ ListStart(s, f) # 0
    /\ ListClose(s, AfterWs(s, ListStart(s, f) + 1, "vec")) # 0
    /\ \A u \in (AfterWs(s, ListStart(s, f) + 1, "vec") + 1)
                ..(ListClose(s, AfterWs(s, ListStart(s, f) + 1, "vec")) - 1) :
        \/ s[u].k \in {",", "ws"}
        \/ s[u].k = "str" /\ s[u + 1].k = "ts"
        \/ s[u].k = "ts" /\ s[u - 1].k = "str"

\* the number of string items that list holds
ItemsHeld(s, f) ==
    Cardinality({u \in (AfterWs(s, ListStart(s, f) + 1, "vec") + 1)
                       ..(ListClose(s, AfterWs(s, ListStart(s, f) + 1, "vec")) - 1) :
                    s[u].k = "str"})

SunCounts == <<themes_count, life_areas_count, challenges_count, opportunities_count>>

\* the Sun section has been cut and counted
Counted == pc \in {"witness", "verdict", "done"} \/ (pc = "error" /\ wisdom_data = "ok")

\* C6: for each of the four fields, when the section holds the list field with
\* exactly k string items the count is k, and when the field does not occur in
\* the section the count is 0.
C6_CountItems ==
    Counted =>
        \A n \in 1..Len(Fields) :
            /\ HoldsList(sun_section, Fields[n]) =>
                SunCounts[n] = ItemsHeld(sun_section, Fields[n])
            /\ (\A i \in 1..Len(sun_section) : sun_section[i] # Tok("field", Fields[n], <<>>)) =>
                SunCounts[n] = 0

Least(S) == CHOOSE x \in S : \A y \in S : x <= y
SunMarks == {i \in 1..Len(content) : content[i] = VP("Sun")}
MoonMarks == {i \in 1..Len(content) : content[i] = VP("Moon")}

\* C7: when VedicPlanet::Sun, occurs and VedicPlanet::Moon, occurs after it,
\* the section runs from the first Sun marker (inclusive) to the first Moon
\* marker after it (exclusive), also when a Moon marker stands before the Sun
\* marker or the Sun marker occurs more than once.
C7_SunSection ==
    (Counted /\ \E a \in SunMarks : \E b \in MoonMarks : a < b) =>
        sun_section =
            SubSeq(content, Least(SunMarks),
                   Least({b \in MoonMarks : b > Least(SunMarks)}) - 1)

\* C8: when src/wisdom_data.rs does not exist or cannot be read the error is
\* not caught: the run has ended with the error, nothing has been printed, and
\* nothing more happens (no verdict line is ever printed).
C8_PrimaryFails ==
    wisdom_data \in {"missing", "unreadable"} =>
        /\ pc = "error" /\ exc # ""
        /\ out = <<>>
        /\ ~ENABLED Next

\* the run ended by the missing primary file
C8_Witness == pc = "error" /\ wisdom_data = "missing" /\ exc = "FileNotFoundError" /\ out = <<>>

VerdictsPrinted == Cardinality({i \in 1..Len(out) : out[i].line = "verdict"})

\* zero matches: 0/9, a MISSING line for each expected planet, VALIDATION FAILED
ZeroMatchReport ==
    /\ Printed(Line("found", "", 0, TRUE))
    /\ \A p \in Expected : Printed(MissingLine(p))
    /\ Printed(Failed)

C10_VerdictFunction ==
    Done =>
        /\ VerdictsPrinted = 1
        /\ Printed(Passed) <=>
            /\ Len(planets_found) = ExpectedCount
            /\ AllNineValid
            /\ witness_rs # "missing"

\* a run that passed with a witness.rs of no tests and none of the functions
C10_Witness ==
    /\ Done /\ Printed(Passed)
    /\ witness_rs = "ok" /\ test_count = 0
    /\ ~has_beginner /\ ~has_intermediate /\ ~has_advanced

====
